---- MODULE Spec2Model ----
(***************************************************************************)
(* Verification model of the validator CLI and its hub.                    *)
(*                                                                         *)
(*   HubSpec      the hub registry       (src/unnamed/part_000)            *)
(*   SessionSpec  the validator session  (src/src/cli.js, lines 481-923)   *)
(*   PairSpec     the session on its first connection, with two requests   *)
(*   FrameSpec    both ends of one connection, with malformed frames       *)
(*   ProbeSpec    the latency probe      (src/unnamed/part_003)            *)
(*   ReportSpec   the hub with the frames of one connection                *)
(*   KeySpec      generate-keys and the loading of the key file            *)
(*                                                                         *)
(* The hub and the validator are separate processes that share no memory,  *)
(* and the latency probe shares no state with the session, so each is      *)
(* checked under its own specification; the variables of the others stay   *)
(* at their initial values.                                                *)
(***************************************************************************)
EXTENDS Integers, Sequences, FiniteSets, TLC

\* JavaScript's null / undefined / a field that is absent from a frame.
Null == "null"

\* a || b for strings; the only falsy string of the model is the absent one
OrElse(a, b) == IF a = Null THEN b ELSE a

\* null / undefined where the present values are numbers
NoNum == 0 - 1
\* a || b for numbers: null and 0 are falsy
OrElseNum(a, b) == IF a = NoNum \/ a = 0 THEN b ELSE a

(***************************************************************************)
(* Bounds of the model                                                     *)
(***************************************************************************)
\* connections the hub accepts in one run
MaxConns == 2
\* signup and validate frames the hub handles in one run
MaxHubFrames == 3
\* Math.random() * 10000 yields a suffix in 0..9999; the model draws it
\* from 0..MaxIdSuffix-1
MaxIdSuffix == 2
\* bytes of a public key (nacl: 32) and of the seed a secret key starts with
\* (nacl: 32); a secret key is the seed followed by the public key
PublicKeyLength == 2
SeedLength == 2
\* redirects one run of getStatusCode is followed through in the model
MaxStatusHops == 6
\* WebSocket objects the validator creates in one run
MaxSockets == 3
\* the largest maxRedirects a call of measureLatency is given in its options
MaxRedirects == 2

(***************************************************************************)
(* Hub registry: state                                                     *)
(***************************************************************************)
VARIABLES
  conns,        \* accepted connections, in order of accept: [open, clientIp, acks, caught]
  validators,   \* the Map validators, in insertion order: records with their key id
  hubFrames,    \* frames handled so far
  handled       \* the frame the last step handled: [type, validatorId, signedMessage]

hubVars == <<conns, validators, hubFrames, handled>>

(***************************************************************************)
(* Validator session: state                                                *)
(***************************************************************************)
VARIABLES
  validatorId,       \* let validatorId
  wsConnection,      \* let wsConnection: 0 is null, otherwise an index of sockets
  isValidating,      \* let isValidating
  pendingPayouts,    \* let pendingPayouts
  location,          \* let location
  ipAddress,         \* let ipAddress
  started,           \* startValidator has called connectWebsocket
  connects,          \* calls of connectWebsocket that await the geo lookup
  sockets,           \* the WebSocket objects created, in order of creation
  timers,            \* pending setTimeout callbacks of the close handler
  requests,          \* the runs of the message handler for validate frames that have not returned
  received,          \* the callbackIds of the validate frames received so far
  lastSend,          \* observation: the wsConnection.send call of the step that led here
  finished,          \* observation: the run of the message handler that returned in that step
  process            \* the key file the start command was given, and the status of
                     \* process.exit (NoNum while the process runs)

sessionVars == <<validatorId, wsConnection, isValidating, pendingPayouts, location,
                 ipAddress, started, connects, sockets, timers, requests, received,
                 lastSend, finished, process>>

(***************************************************************************)
(* Latency probe (one call of an exported function at a time): state       *)
(***************************************************************************)
VARIABLES
  pc,             \* where the call of measureLatency stands
  url,            \* the argument url: the site it names, see Sites
  config,         \* const config
  results,        \* const results, and at the end the value returned
  currentUrl,     \* makeRequest's currentUrl: the hop the last HEAD request went to
  redirectCount,  \* makeRequest's redirectCount
  echo,           \* the echo probe of the call: "idle", "done"
  dns,            \* the DNS lookup of the call: "idle", "pending", "done"
  fallback,       \* history: the GET of the catch (headError) branch was issued
  tcp,            \* a call of getTcpConnectionTime: its socket and its promise
  stall           \* observation: ms the step that led here held the event loop

probeVars == <<pc, url, config, results, currentUrl, redirectCount, echo, dns, fallback, tcp,
               stall>>

(***************************************************************************)
(* Key files (generate-keys and loadPrivateKeyFromFile): state             *)
(***************************************************************************)
VARIABLES
  files,     \* privateKey.txt and publicKey.txt of the output directory: [exists, text]
  command,   \* how the last run of generate-keys ended: "none", "succeeded", "exit1"
  loaded     \* what loadPrivateKeyFromFile made of privateKey.txt since the last run

keyVars == <<files, command, loaded>>

vars == <<hubVars, sessionVars, probeVars, keyVars>>

\* new Date(): the hub's clock is read once per frame and never runs backwards;
\* the model's reading is the number of frames handled before this one
HubNow == hubFrames

\* remote addresses a connection can come from (req.socket.remoteAddress)
ClientIps == {"10.0.0.1", "10.0.0.2"}
\* data.data.ip / data.data.ipAddress of a frame: absent, or the public address
\* the validator looked up, which is not the remote address the hub sees
FrameIps == {Null, "203.0.113.7"}
\* the data of the signup frames the hub is sent: Null is an absent field
SignupFrames ==
  { [ip |-> Null,          publicKey |-> "pkA", location |-> "Pune"],
    [ip |-> "203.0.113.7", publicKey |-> "pkA", location |-> Null],
    [ip |-> Null,          publicKey |-> Null,  location |-> "Pune"] }

IdSuffixes == 0 .. (MaxIdSuffix - 1)
\* `validator-${n}`
ValidatorIdOf(n) == <<"validator", n>>
HubIds == {ValidatorIdOf(n) : n \in IdSuffixes}

\* ---- the JavaScript Map, kept in insertion order ----
MapHas(m, id) == \E i \in 1 .. Len(m) : m[i].id = id
MapIndex(m, id) == CHOOSE i \in 1 .. Len(m) : m[i].id = id
MapGet(m, id) == m[MapIndex(m, id)]
\* Map.prototype.set: an existing key keeps its place, a new key goes last
MapSet(m, id, rec) ==
  IF MapHas(m, id) THEN [m EXCEPT ![MapIndex(m, id)] = rec] ELSE Append(m, rec)
\* Map.prototype.delete of the entry at position i
MapDeleteAt(m, i) == [j \in 1 .. (Len(m) - 1) |-> IF j < i THEN m[j] ELSE m[j + 1]]
MapKeys(m) == {m[i].id : i \in 1 .. Len(m)}

\* no frame handled by the step
NoFrame == [type |-> "none"]

HubInit ==
  /\ conns = <<>>
  /\ validators = <<>>
  /\ hubFrames = 0
  /\ handled = NoFrame

\* wss.on("connection"): a new connection handle with its remote address
HubConnection(clientIp) ==
  /\ Len(conns) < MaxConns
  /\ conns' = Append(conns, [open |-> TRUE, clientIp |-> clientIp, acks |-> {},
                             caught |-> FALSE])
  /\ handled' = NoFrame
  /\ UNCHANGED <<validators, hubFrames, sessionVars, probeVars, keyVars>>

\* the record a signup on connection c stores under the id. The field
\* conn is history, not a field of the code's record: the connection handle
\* whose signup stored the record.
SignupRecord(id, c, data) ==
  [id |-> id,
   publicKey |-> data.publicKey,
   location |-> OrElse(data.location, "Unknown"),
   connectionTime |-> HubNow,
   lastActive |-> HubNow,
   ip |-> OrElse(data.ip, conns[c].clientIp),
   clientIp |-> conns[c].clientIp,
   conn |-> c]

\* catch (error) of the message handler of connection c: logger.error, and
\* nothing else. caught is history: the handler of c has caught an error.
HubCatch(cs, c) == [cs EXCEPT ![c].caught = TRUE]

\* ws.on("message") with a message JSON.parse rejects, or whose data is absent
\* (data.data.publicKey and data.data.validatorId throw a TypeError)
HubMalformed(c) ==
  /\ c \in 1 .. Len(conns)
  /\ conns[c].open
  /\ hubFrames < MaxHubFrames
  /\ hubFrames' = hubFrames + 1
  /\ conns' = HubCatch(conns, c)
  /\ handled' = [type |-> "malformed", conn |-> c]
  /\ UNCHANGED <<validators, sessionVars, probeVars, keyVars>>

\* ws.on("message"), data.type === "signup", on connection c. The record is
\* set first; publicKey.substring then throws for an absent publicKey, and the
\* catch logs it, so that no ack is sent.
HubSignup(c, n, data) ==
  /\ c \in 1 .. Len(conns)
  /\ conns[c].open
  /\ hubFrames < MaxHubFrames
  /\ hubFrames' = hubFrames + 1
  /\ LET id == ValidatorIdOf(n) IN  \* const validatorId
       /\ validators' = MapSet(validators, id, SignupRecord(id, c, data))
       /\ conns' = IF data.publicKey = Null
                     THEN HubCatch(conns, c)
                     ELSE [conns EXCEPT ![c].acks = @ \cup {id}]
  /\ handled' = [type |-> "signup", conn |-> c, acked |-> data.publicKey # Null]
  /\ UNCHANGED <<sessionVars, probeVars, keyVars>>

\* a variant of ReportRecord that would also take the frame's ip as the
\* record's location
ReportRecordRelocating(info, reportIp) ==
  [info EXCEPT !.lastActive = HubNow, !.ip = OrElse(reportIp, info.ip),
               !.location = OrElse(reportIp, info.location)]

\* the record a report leaves; reportIp is data.data.ipAddress
ReportRecord(info, reportIp) ==
  [info EXCEPT !.lastActive = HubNow, !.ip = OrElse(reportIp, info.ip)]

\* data.data.signedMessage of the validate frames the hub is sent: a signature
\* made with the secret key of "pkA", and one made with another key
ReportSignatures ==
  { [over |-> "Replying to cb", key |-> "skA"],
    [over |-> "Replying to cb", key |-> "skX"] }

\* ws.on("message"), data.type === "validate", on connection c; the handler
\* reads validatorId and ipAddress of the frame, and nothing else of it
HubValidate(c, id, reportIp, signedMessage) ==
  /\ c \in 1 .. Len(conns)
  /\ conns[c].open
  /\ hubFrames < MaxHubFrames
  /\ hubFrames' = hubFrames + 1
  /\ validators' = IF MapHas(validators, id)
                     THEN MapSet(validators, id,
                                 ReportRecord(MapGet(validators, id), reportIp))
                     ELSE validators
  /\ handled' = [type |-> "validate", conn |-> c, validatorId |-> id,
                 signedMessage |-> signedMessage]
  /\ UNCHANGED <<conns, sessionVars, probeVars, keyVars>>

\* the entries the close handler's loop deletes: the first one, in insertion
\* order, whose ip equals the remote address of the closing connection
CloseMatches(m, clientIp) == {i \in 1 .. Len(m) : m[i].ip = clientIp}
Least(S) == CHOOSE i \in S : \A j \in S : i <= j
AfterClose(m, clientIp) ==
  IF CloseMatches(m, clientIp) = {} THEN m
  ELSE MapDeleteAt(m, Least(CloseMatches(m, clientIp)))

\* ws.on("close") of connection c
HubClose(c) ==
  /\ c \in 1 .. Len(conns)
  /\ conns[c].open
  /\ conns' = [conns EXCEPT ![c].open = FALSE]
  /\ validators' = AfterClose(validators, conns[c].clientIp)
  /\ handled' = NoFrame
  /\ UNCHANGED <<hubFrames, sessionVars, probeVars, keyVars>>

(***************************************************************************)
(* Validator session: values and helpers                                   *)
(***************************************************************************)
COST_PER_VALIDATION == 100
\* maxRedirects: 5 of the options getStatusCode gives to http.request
STATUS_MAX_REDIRECTS == 5
\* the delay of the close handler's setTimeout, in ms
RECONNECT_DELAY == 5000

\* the keypair made from privateKeyBase64
Keypair == [publicKey |-> "pkA", secretKey |-> "skA"]

\* signMessage: a detached signature, a function of the message and the secret key
signMessage(message, keypair) == [over |-> message, key |-> keypair.secretKey]

\* what axios.get("https://ipinfo.io/json") gives: a failed lookup, or the data
GeoAnswers ==
  { [ok |-> FALSE],
    [ok |-> TRUE, ip |-> "203.0.113.7", city |-> "Pune", region |-> "MH", country |-> "IN"] }

\* `${city}, ${region}, ${country}` of connectWebsocket
StartLocation(d) == d.city \o ", " \o d.region \o ", " \o d.country
\* `${city}, ${region}` of the validate branch
FreshLocation(d) == d.city \o ", " \o d.region

\* the data of the signup frames the hub sends; an absent field is Null or NoNum
AckFrames ==
  { [validatorId |-> "validator-7", pendingPayouts |-> NoNum],
    [validatorId |-> "validator-7", pendingPayouts |-> 0],
    [validatorId |-> "validator-7", pendingPayouts |-> 250],
    [validatorId |-> Null,          pendingPayouts |-> NoNum] }

\* what a probe meets: whether new URL(url) succeeds, what getTcpLatency resolves
\* with (null on error or timeout) and what getStatusCode resolves with (the
\* final status of the response, 0 on error or timeout; a status below 200 is
\* never the final one)
ProbeAnswer(urlParses, tcpLatency, time, status) ==
  [urlParses |-> urlParses, tcpLatency |-> tcpLatency,
   statusCheck |-> [time |-> time, status |-> status]]
ProbeAnswers ==
  { ProbeAnswer(FALSE, NoNum, 0, 0),
    ProbeAnswer(TRUE, NoNum, 70, 0),
    ProbeAnswer(TRUE, 40, 70, 200),
    ProbeAnswer(TRUE, NoNum, 70, 399),
    ProbeAnswer(TRUE, 0, 70, 400),
    ProbeAnswer(TRUE, 40, 70, 599),
    ProbeAnswer(TRUE, 40, 70, 600) }
\* the callbackIds of the validate frames the hub sends in one run
CallbackIds == {"cb-1"}
\* the callbackIds of two validate frames the hub sends on one connection
PairIds == {"cb-1", "cb-2"}
\* the status fetch resolves with; NoNum is a rejected fetch
FetchAnswers == {NoNum, 200, 400}

\* the key file the start command is given: absent, one whose content
\* decodeBase64 or nacl.sign.keyPair.fromSecretKey rejects, or a good one
KeyFiles == {"missing", "undecodable", "valid"}

\* a key loader that would end the process with status 0
loadPrivateKeyFromFileExitZero(key) == IF key = "valid" THEN NoNum ELSE 0

\* loadPrivateKeyFromFile: the status of the process.exit it ends in; NoNum when
\* it returns the keypair
loadPrivateKeyFromFile(key) == IF key = "valid" THEN NoNum ELSE 1

\* no send call, no handler return in the step
NoCall == [kind |-> "none"]
NotFinished == [done |-> FALSE]

SessionInit ==
  /\ validatorId = Null
  /\ wsConnection = 0
  /\ isValidating = TRUE
  /\ pendingPayouts = 0
  /\ location = "Unknown"
  /\ ipAddress = "Unknown"
  /\ started = FALSE
  /\ connects = 0
  /\ sockets = <<>>
  /\ timers = <<>>
  /\ requests = <<>>
  /\ received = {}
  /\ lastSend = NoCall
  /\ finished = NotFinished
  /\ process = [key |-> Null, exitCode |-> NoNum]

Remove(seq, i) == [j \in 1 .. (Len(seq) - 1) |-> IF j < i THEN seq[j] ELSE seq[j + 1]]

\* ---- the ws library ----
\* WebSocket.prototype.close: a connecting socket aborts its handshake (error and
\* close are emitted later), an open one starts the closing handshake
WsClose(socks, s) ==
  IF s = 0 THEN socks
  ELSE IF socks[s].readyState = "CONNECTING"
    THEN [socks EXCEPT ![s].readyState = "CLOSING", ![s].aborted = TRUE]
  ELSE IF socks[s].readyState = "OPEN"
    THEN [socks EXCEPT ![s].readyState = "CLOSING"]
  ELSE socks

\* WebSocket.prototype.send without a callback: the frame goes out on an open
\* socket; a connecting socket throws; a closing or closed one throws
\* (throwsClosed) or drops the frame, by the version of ws that is installed.
\* A socket's signups counts the Registration frames that went out on it.
WsSend(socks, s, frame, throwsClosed) ==
  IF socks[s].readyState = "OPEN"
    THEN [socks |-> IF frame.type = "signup"
                      THEN [socks EXCEPT ![s].signups = @ + 1]
                      ELSE socks,
          out |-> "sent"]
  ELSE IF socks[s].readyState = "CONNECTING" \/ throwsClosed
    THEN [socks |-> socks, out |-> "thrown"]
  ELSE [socks |-> socks, out |-> "dropped"]

\* ---- variants of the handlers and frames below, used to test the properties ----
\* an error handler that would also schedule a reconnect
ErrorHandlerReconnecting(socks, tm) ==
  [socks |-> WsClose(socks, wsConnection),
   timers |-> Append(tm, [delay |-> 5000, age |-> 0])]

\* a close handler that would reconnect after half the delay
CloseHandlerHalfDelay(socks, tm) ==
  [socks |-> socks,
   timers |-> IF isValidating THEN Append(tm, [delay |-> 2500, age |-> 0]) ELSE tm]

\* a Bad frame that would carry the measured latency
BadFrameMeasured(req, locationInfo) ==
  [type |-> "validate",
   callbackId |-> req.callbackId,
   status |-> "Bad",
   latency |-> req.time,
   validatorId |-> validatorId,
   signedMessage |-> req.signature,
   location |-> locationInfo,
   ipAddress |-> ipAddress]

\* a Good frame that would take callbackId from a variable every validate
\* frame overwrites
GoodFrameSharedCallback(req) ==
  [type |-> "validate",
   callbackId |-> requests[Len(requests)].callbackId,
   status |-> "Good",
   latency |-> req.time,
   validatorId |-> validatorId,
   signedMessage |-> req.signature,
   location |-> location,
   ipAddress |-> ipAddress]

\* a Registration frame whose signature would be made over the reply text
SignupFrameReplySigned(callbackId) ==
  [type |-> "signup",
   callbackId |-> callbackId,
   ip |-> ipAddress,
   publicKey |-> Keypair.publicKey,
   signedMessage |-> signMessage(<<"Replying to ", callbackId>>, Keypair),
   location |-> location]

\* a close handler that would schedule nothing
CloseHandlerNoReconnect(socks, tm) == [socks |-> socks, timers |-> tm]

\* a catch of the message handler that would close the socket
CaughtClosing(socks, s) == WsClose([socks EXCEPT ![s].caught = TRUE], s)

\* ---- the handlers connectWebsocket registers on a socket ----
\* catch (error) of the message handler of socket s: logger.error, and nothing
\* else. caught is history: the handler of s has caught an error.
Caught(socks, s) == [socks EXCEPT ![s].caught = TRUE]

\* wsConnection.on("error"): log, then close the current connection
ErrorHandler(socks, tm) ==
  [socks |-> WsClose(socks, wsConnection), timers |-> tm]

\* wsConnection.on("close"): schedule one reconnect while the session is to keep running
CloseHandler(socks, tm) ==
  [socks |-> socks,
   timers |-> IF isValidating
                THEN Append(tm, [delay |-> RECONNECT_DELAY, age |-> 0])
                ELSE tm]

\* the Registration frame of the open handler
SignupFrame(callbackId) ==
  [type |-> "signup",
   callbackId |-> callbackId,
   ip |-> ipAddress,
   publicKey |-> Keypair.publicKey,
   signedMessage |-> signMessage(<<"Signed message for ", callbackId, ", ", Keypair.publicKey>>,
                                 Keypair),
   location |-> location]

\* the result frame of the Good branch
GoodFrame(req) ==
  [type |-> "validate",
   callbackId |-> req.callbackId,
   status |-> "Good",
   latency |-> req.time,
   validatorId |-> validatorId,
   signedMessage |-> req.signature,
   location |-> location,
   ipAddress |-> ipAddress]

\* a variant of BadFrame that would answer for a callbackId that no request
\* has carried
BadFrameUnasked(req, locationInfo) ==
  [type |-> "validate",
   callbackId |-> "cb-0",
   status |-> "Bad",
   latency |-> 0,
   validatorId |-> validatorId,
   signedMessage |-> req.signature,
   location |-> locationInfo,
   ipAddress |-> ipAddress]

\* the result frame of the Bad branch and of the catch branch
BadFrame(req, locationInfo) ==
  [type |-> "validate",
   callbackId |-> req.callbackId,
   status |-> "Bad",
   latency |-> 0,
   validatorId |-> validatorId,
   signedMessage |-> req.signature,
   location |-> locationInfo,
   ipAddress |-> ipAddress]

\* the condition of the Bad branch; == "unknown" is false of every number
IsBadStatus(responseStatus) ==
  (responseStatus >= 400 /\ responseStatus < 600) \/ responseStatus = 0

\* measureAccurateLatency: { time: 0, status: 0 } when new URL(url) throws
measureAccurateLatency(urlParses, tcpLatency, statusCheck) ==
  IF urlParses
    THEN [time |-> OrElseNum(tcpLatency, statusCheck.time), status |-> statusCheck.status]
    ELSE [time |-> 0, status |-> 0]

\* observation of a send call of the validate branch for the run req
ResultSend(out, frame, req) ==
  [kind |-> "validate", sock |-> wsConnection, frame |-> frame, out |-> out,
   time |-> req.time, responseStatus |-> req.responseStatus,
   receivedOn |-> req.sock, afterAck |-> req.afterAck]

\* observation of a run of the validate branch that returns
Returned(req) ==
  [done |-> TRUE, callbackId |-> req.callbackId, seq |-> req.seq, afterAck |-> req.afterAck,
   afterCaught |-> req.afterCaught,
   replies |-> req.replies, credit |-> req.credit]

\* the run req after a send call that did not throw
Replied(req, out) == [req EXCEPT !.replies = @ + (IF out = "sent" THEN 1 ELSE 0)]

(***************************************************************************)
(* Validator session: operations                                           *)
(***************************************************************************)
\* the start command with the key file key, and startValidator: the key is
\* loaded, which may end the process; otherwise comes the one call of
\* connectWebsocket the process makes itself, which runs up to the await of the
\* geo lookup
StartValidator(key) ==
  /\ ~started
  /\ started' = TRUE
  /\ process' = [key |-> key, exitCode |-> loadPrivateKeyFromFile(key)]
  /\ connects' = IF process'.exitCode = NoNum THEN connects + 1 ELSE connects
  /\ lastSend' = NoCall
  /\ finished' = NotFinished
  /\ UNCHANGED <<hubVars, probeVars, keyVars, validatorId, wsConnection, isValidating, pendingPayouts, location,
                 ipAddress, sockets, timers, requests, received>>

\* connectWebsocket after the geo lookup: store ip and location when the lookup
\* answered, then create the socket and keep it in wsConnection
ConnectWebsocket(geo) ==
  /\ connects > 0
  /\ Len(sockets) < MaxSockets
  /\ connects' = connects - 1
  /\ ipAddress' = IF geo.ok THEN OrElse(geo.ip, "Unknown") ELSE ipAddress
  /\ location' = IF geo.ok THEN StartLocation(geo) ELSE location
  /\ sockets' = Append(sockets, [readyState |-> "CONNECTING", aborted |-> FALSE,
                                 signups |-> 0, acked |-> <<>>, caught |-> FALSE])
  /\ wsConnection' = Len(sockets) + 1
  /\ lastSend' = NoCall
  /\ finished' = NotFinished
  /\ UNCHANGED <<hubVars, probeVars, keyVars, process, validatorId, isValidating, pendingPayouts, started, timers,
                 requests, received>>

\* "open" on socket s: mint a callbackId (randomUUID: a fresh token; a socket
\* opens once, so the socket names it), sign, send the Registration frame on
\* wsConnection. A throwing send rejects the async handler and changes nothing.
OnOpen(s, throwsClosed) ==
  /\ s \in 1 .. Len(sockets)
  /\ sockets[s].readyState = "CONNECTING"
  /\ LET frame == SignupFrame(<<"uuid", s>>)
         res == WsSend([sockets EXCEPT ![s].readyState = "OPEN"], wsConnection, frame,
                       throwsClosed)
     IN /\ sockets' = res.socks
        /\ lastSend' = [kind |-> "signup", sock |-> wsConnection, frame |-> frame,
                        out |-> res.out, openedOn |-> s]
  /\ finished' = NotFinished
  /\ UNCHANGED <<hubVars, probeVars, keyVars, process, validatorId, wsConnection, isValidating, pendingPayouts, location,
                 ipAddress, started, connects, timers, requests, received>>

\* "message" on socket s with a message JSON.parse rejects, or a frame whose
\* data is absent (the destructuring of data.data throws a TypeError): the
\* outer catch logs it
OnMalformed(s) ==
  /\ s \in 1 .. Len(sockets)
  /\ sockets[s].readyState = "OPEN"
  /\ sockets' = Caught(sockets, s)
  /\ lastSend' = NoCall
  /\ finished' = NotFinished
  /\ UNCHANGED <<hubVars, probeVars, keyVars, process, validatorId, wsConnection, isValidating, pendingPayouts,
                 location, ipAddress, started, connects, timers, requests, received>>

\* a variant of the signup branch that would not read the payouts of the ack
AckPayoutsIgnored(data, payouts) == payouts

\* pendingPayouts after the signup branch: data.data.pendingPayouts if the frame
\* has one; the assignment is not reached when validatorId.padEnd has thrown
AckPayouts(data, payouts) ==
  IF data.validatorId # Null /\ data.pendingPayouts # NoNum
    THEN data.pendingPayouts
    ELSE payouts

\* "message" on socket s, data.type === "signup". validatorId is assigned first;
\* validatorId.padEnd then throws for an absent id and the outer catch logs it.
\* The hub acknowledges a Registration frame once; acked keeps the validatorId
\* of the acks socket s has received. The step makes no send call; ackPayouts
\* is observation: data.data.pendingPayouts of the frame (NoNum: absent).
OnSignupAck(s, data) ==
  /\ s \in 1 .. Len(sockets)
  /\ sockets[s].readyState = "OPEN"
  /\ Len(sockets[s].acked) < sockets[s].signups
  /\ validatorId' = data.validatorId
  /\ pendingPayouts' = AckPayouts(data, pendingPayouts)
  /\ sockets' = IF data.validatorId = Null
                   THEN Caught([sockets EXCEPT ![s].acked = Append(@, data.validatorId)], s)
                   ELSE [sockets EXCEPT ![s].acked = Append(@, data.validatorId)]
  /\ lastSend' = [kind |-> "none", ackPayouts |-> data.pendingPayouts]
  /\ finished' = NotFinished
  /\ UNCHANGED <<hubVars, probeVars, keyVars, process, wsConnection, isValidating, location, ipAddress, started, connects,
                 timers, requests, received>>

\* "message" on socket s, data.type === "validate": sign the reply, start the
\* probe and await it. The hub mints a fresh callbackId for every request.
OnValidate(s, callbackId) ==
  /\ s \in 1 .. Len(sockets)
  /\ sockets[s].readyState = "OPEN"
  /\ callbackId \notin received
  /\ received' = received \cup {callbackId}
  /\ requests' = Append(requests,
         [callbackId |-> callbackId,
          signature |-> signMessage(<<"Replying to ", callbackId>>, Keypair),
          seq |-> Cardinality(received) + 1,
          afterCaught |-> sockets[s].caught,
          sock |-> s,
          afterAck |-> sockets[s].acked # <<>>,
          pc |-> "measure",
          redirects |-> 0,
          time |-> NoNum,
          responseStatus |-> NoNum,
          credit |-> 0,
          replies |-> 0])
  /\ lastSend' = NoCall
  /\ finished' = NotFinished
  /\ UNCHANGED <<hubVars, probeVars, keyVars, process, validatorId, wsConnection, isValidating, pendingPayouts, location,
                 ipAddress, started, connects, sockets, timers>>

\* the response callback of getStatusCode for the run r meets one of the
\* statuses 301, 302, 303, 307, 308: resolve(getStatusCode(redirectUrl)), a new
\* HEAD request; http.request knows no followRedirects or maxRedirects option
\* and the call keeps no count. redirects is history: the requests so followed.
StatusRedirect(r) ==
  /\ r \in 1 .. Len(requests)
  /\ requests[r].pc = "measure"
  /\ requests[r].redirects < MaxStatusHops
  /\ requests' = [requests EXCEPT ![r].redirects = @ + 1]
  /\ lastSend' = NoCall
  /\ finished' = NotFinished
  /\ UNCHANGED <<hubVars, probeVars, keyVars, process, validatorId, wsConnection, isValidating,
                 pendingPayouts, location, ipAddress, started, connects, sockets, timers, received>>

\* the inner catch: credit again, then await a fresh location
InnerCatch(req) ==
  [req EXCEPT !.pc = "geoCatch", !.credit = @ + COST_PER_VALIDATION]

\* lines 769-828, run once responseStatus is known: credit the validation, then
\* await a fresh location (Bad) or send the Good frame; a throwing send is
\* caught by the inner catch
Classify(r, time, responseStatus, throwsClosed) ==
  LET req == [requests[r] EXCEPT !.time = time, !.responseStatus = responseStatus,
                                 !.credit = @ + COST_PER_VALIDATION]
      res == WsSend(sockets, wsConnection, GoodFrame(req), throwsClosed)
  IN IF IsBadStatus(responseStatus)
       THEN /\ requests' = [requests EXCEPT ![r] = [req EXCEPT !.pc = "geoBad"]]
            /\ pendingPayouts' = pendingPayouts + COST_PER_VALIDATION
            /\ lastSend' = NoCall
            /\ finished' = NotFinished
            /\ UNCHANGED sockets
       ELSE /\ sockets' = res.socks
            /\ lastSend' = ResultSend(res.out, GoodFrame(req), req)
            /\ IF res.out = "thrown"
                 THEN /\ requests' = [requests EXCEPT ![r] = InnerCatch(req)]
                      /\ pendingPayouts' = pendingPayouts + COST_PER_VALIDATION
                                           + COST_PER_VALIDATION
                      /\ finished' = NotFinished
                 ELSE /\ requests' = Remove(requests, r)
                      /\ pendingPayouts' = pendingPayouts + COST_PER_VALIDATION
                      /\ finished' = Returned(Replied(req, res.out))

\* measureAccurateLatency resolves for the run r
MeasureDone(r, urlParses, tcpLatency, statusCheck, throwsClosed) ==
  /\ r \in 1 .. Len(requests)
  /\ requests[r].pc = "measure"
  /\ LET pingResult == measureAccurateLatency(urlParses, tcpLatency, statusCheck) IN
       IF pingResult.status = 0
         THEN /\ requests' = [requests EXCEPT ![r].pc = "fetch", ![r].time = pingResult.time]
              /\ lastSend' = NoCall
              /\ finished' = NotFinished
              /\ UNCHANGED <<sockets, pendingPayouts>>
         ELSE Classify(r, pingResult.time, pingResult.status, throwsClosed)
  /\ UNCHANGED <<hubVars, probeVars, keyVars, process, validatorId, wsConnection, isValidating, location, ipAddress, started,
                 connects, timers, received>>

\* the fallback fetch settles for the run r: its status, or 0 kept when it rejects
FetchDone(r, answer, throwsClosed) ==
  /\ r \in 1 .. Len(requests)
  /\ requests[r].pc = "fetch"
  /\ Classify(r, requests[r].time, IF answer = NoNum THEN 0 ELSE answer, throwsClosed)
  /\ UNCHANGED <<hubVars, probeVars, keyVars, process, validatorId, wsConnection, isValidating, location, ipAddress, started,
                 connects, timers, received>>

\* a variant of LocationInfo that would forget the location when the lookup fails
LocationInfoForgetting(geo) == IF geo.ok THEN FreshLocation(geo) ELSE "Unknown"

\* the location a result frame of a failed check carries
LocationInfo(geo) == IF geo.ok THEN FreshLocation(geo) ELSE location

\* the Bad branch after its geo lookup: send the Bad frame; a throwing send is
\* caught by the inner catch
BadReply(r, geo, throwsClosed) ==
  /\ r \in 1 .. Len(requests)
  /\ requests[r].pc = "geoBad"
  /\ LET frame == BadFrame(requests[r], LocationInfo(geo))
         res == WsSend(sockets, wsConnection, frame, throwsClosed)
     IN /\ sockets' = res.socks
        /\ lastSend' = ResultSend(res.out, frame, requests[r])
        /\ IF res.out = "thrown"
             THEN /\ requests' = [requests EXCEPT ![r] = InnerCatch(@)]
                  /\ pendingPayouts' = pendingPayouts + COST_PER_VALIDATION
                  /\ finished' = NotFinished
             ELSE /\ requests' = Remove(requests, r)
                  /\ finished' = Returned(Replied(requests[r], res.out))
                  /\ UNCHANGED pendingPayouts
  /\ UNCHANGED <<hubVars, probeVars, keyVars, process, validatorId, wsConnection, isValidating, location, ipAddress, started,
                 connects, timers, received>>

\* the inner catch after its geo lookup: send the Bad frame; a throwing send is
\* logged by the outer catch
CatchReply(r, geo, throwsClosed) ==
  /\ r \in 1 .. Len(requests)
  /\ requests[r].pc = "geoCatch"
  /\ LET frame == BadFrame(requests[r], LocationInfo(geo))
         res == WsSend(sockets, wsConnection, frame, throwsClosed)
     IN /\ sockets' = res.socks
        /\ lastSend' = ResultSend(res.out, frame, requests[r])
        /\ finished' = Returned(Replied(requests[r], res.out))
  /\ requests' = Remove(requests, r)
  /\ UNCHANGED <<hubVars, probeVars, keyVars, process, validatorId, wsConnection, isValidating, pendingPayouts, location,
                 ipAddress, started, connects, timers, received>>

\* ws emits "error" and then "close" on socket s (a failed or aborted handshake)
EmitErrorAndClose(s) ==
  LET e == ErrorHandler([sockets EXCEPT ![s].readyState = "CLOSING"], timers)
      c == CloseHandler([e.socks EXCEPT ![s].readyState = "CLOSED", ![s].aborted = FALSE],
                        e.timers)
  IN /\ sockets' = c.socks
     /\ timers' = c.timers

\* ws emits "close" on socket s
EmitClose(s) ==
  LET c == CloseHandler([sockets EXCEPT ![s].readyState = "CLOSED"], timers)
  IN /\ sockets' = c.socks
     /\ timers' = c.timers

\* the handshake of socket s fails (hub unreachable, refused, bad response)
OnConnectFail(s) ==
  /\ s \in 1 .. Len(sockets)
  /\ sockets[s].readyState = "CONNECTING"
  /\ EmitErrorAndClose(s)
  /\ lastSend' = NoCall
  /\ finished' = NotFinished
  /\ UNCHANGED <<hubVars, probeVars, keyVars, process, validatorId, wsConnection, isValidating, pendingPayouts, location,
                 ipAddress, started, connects, requests, received>>

\* an open socket s receives an invalid frame: ws emits "error" and closes later
OnError(s) ==
  /\ s \in 1 .. Len(sockets)
  /\ sockets[s].readyState = "OPEN"
  /\ LET e == ErrorHandler([sockets EXCEPT ![s].readyState = "CLOSING"], timers) IN
       /\ sockets' = e.socks
       /\ timers' = e.timers
  /\ lastSend' = NoCall
  /\ finished' = NotFinished
  /\ UNCHANGED <<hubVars, probeVars, keyVars, process, validatorId, wsConnection, isValidating, pendingPayouts, location,
                 ipAddress, started, connects, requests, received>>

\* the connection of socket s ends: the hub closed it, the transport dropped, or
\* the closing handshake (or the aborted handshake) completed
OnClose(s) ==
  /\ s \in 1 .. Len(sockets)
  /\ sockets[s].readyState \in {"OPEN", "CLOSING"}
  /\ IF sockets[s].aborted THEN EmitErrorAndClose(s) ELSE EmitClose(s)
  /\ lastSend' = NoCall
  /\ finished' = NotFinished
  /\ UNCHANGED <<hubVars, probeVars, keyVars, process, validatorId, wsConnection, isValidating, pendingPayouts, location,
                 ipAddress, started, connects, requests, received>>

\* time passes: d ms more on every pending timer
TickSteps == {2500, 5000}
Tick(d) ==
  /\ \E i \in 1 .. Len(timers) : timers[i].age < timers[i].delay
  /\ timers' = [i \in 1 .. Len(timers) |->
                  [timers[i] EXCEPT !.age = IF @ + d >= timers[i].delay
                                              THEN timers[i].delay ELSE @ + d]]
  /\ lastSend' = NoCall
  /\ finished' = NotFinished
  /\ UNCHANGED <<hubVars, probeVars, keyVars, process, validatorId, wsConnection, isValidating, pendingPayouts, location,
                 ipAddress, started, connects, sockets, requests, received>>

\* a setTimeout callback of the close handler runs once its delay has passed:
\* connectWebsocket is called and runs up to the await of the geo lookup
ReconnectTimer(i) ==
  /\ i \in 1 .. Len(timers)
  /\ timers[i].age >= timers[i].delay
  /\ Len(sockets) + connects < MaxSockets
  /\ timers' = Remove(timers, i)
  /\ connects' = connects + 1
  /\ lastSend' = NoCall
  /\ finished' = NotFinished
  /\ UNCHANGED <<hubVars, probeVars, keyVars, process, validatorId, wsConnection, isValidating, pendingPayouts, location,
                 ipAddress, started, sockets, requests, received>>

\* stopValidator
StopValidator ==
  /\ started
  /\ process.exitCode = NoNum
  /\ isValidating' = FALSE
  /\ sockets' = WsClose(sockets, wsConnection)
  /\ lastSend' = NoCall
  /\ finished' = NotFinished
  /\ UNCHANGED <<hubVars, probeVars, keyVars, process, validatorId, wsConnection, pendingPayouts, location, ipAddress,
                 started, connects, timers, requests, received>>

SessionNext ==
  \/ \E key \in KeyFiles : StartValidator(key)
  \/ \E geo \in GeoAnswers : ConnectWebsocket(geo)
  \/ \E s \in 1 .. MaxSockets, tc \in BOOLEAN : OnOpen(s, tc)
  \/ \E s \in 1 .. MaxSockets, data \in AckFrames : OnSignupAck(s, data)
  \/ \E s \in 1 .. MaxSockets, callbackId \in CallbackIds : OnValidate(s, callbackId)
  \/ \E r \in 1 .. Cardinality(CallbackIds), a \in ProbeAnswers, tc \in BOOLEAN :
        MeasureDone(r, a.urlParses, a.tcpLatency, a.statusCheck, tc)
  \/ \E r \in 1 .. Cardinality(CallbackIds), answer \in FetchAnswers, tc \in BOOLEAN :
        FetchDone(r, answer, tc)
  \/ \E r \in 1 .. Cardinality(CallbackIds), geo \in GeoAnswers, tc \in BOOLEAN : BadReply(r, geo, tc)
  \/ \E r \in 1 .. Cardinality(CallbackIds), geo \in GeoAnswers, tc \in BOOLEAN : CatchReply(r, geo, tc)
  \/ \E s \in 1 .. MaxSockets : OnConnectFail(s)
  \/ \E s \in 1 .. MaxSockets : OnError(s)
  \/ \E s \in 1 .. MaxSockets : OnClose(s)
  \/ \E d \in TickSteps : Tick(d)
  \/ \E i \in 1 .. MaxSockets : ReconnectTimer(i)
  \/ StopValidator

\* the session on its first connection, with two validate frames: no
\* reconnect timer fires
PairNext ==
  \/ \E key \in KeyFiles : StartValidator(key)
  \/ \E geo \in GeoAnswers : ConnectWebsocket(geo)
  \/ \E tc \in BOOLEAN : OnOpen(1, tc)
  \/ \E data \in AckFrames : OnSignupAck(1, data)
  \/ \E callbackId \in PairIds : OnValidate(1, callbackId)
  \/ \E r \in 1 .. Cardinality(PairIds), a \in ProbeAnswers, tc \in BOOLEAN :
        MeasureDone(r, a.urlParses, a.tcpLatency, a.statusCheck, tc)
  \/ \E r \in 1 .. Cardinality(PairIds), answer \in FetchAnswers, tc \in BOOLEAN :
        FetchDone(r, answer, tc)
  \/ \E r \in 1 .. Cardinality(PairIds), geo \in GeoAnswers, tc \in BOOLEAN :
        BadReply(r, geo, tc)
  \/ \E r \in 1 .. Cardinality(PairIds), geo \in GeoAnswers, tc \in BOOLEAN :
        CatchReply(r, geo, tc)
  \/ OnError(1)
  \/ OnClose(1)
  \/ StopValidator

\* both ends of one connection, with malformed frames among the frames: the
\* hub with its first connection, the session on its first socket
FrameNext ==
  \/ Len(conns) = 0 /\ HubConnection("10.0.0.1")
  \/ \E data \in SignupFrames : HubSignup(1, 0, data)
  \/ HubMalformed(1)
  \/ \E key \in KeyFiles : StartValidator(key)
  \/ \E geo \in GeoAnswers : ConnectWebsocket(geo)
  \/ \E tc \in BOOLEAN : OnOpen(1, tc)
  \/ \E data \in AckFrames : OnSignupAck(1, data)
  \/ OnMalformed(1)
  \/ \E callbackId \in CallbackIds : OnValidate(1, callbackId)
  \/ StatusRedirect(1)
  \/ \E a \in ProbeAnswers, tc \in BOOLEAN :
        MeasureDone(1, a.urlParses, a.tcpLatency, a.statusCheck, tc)
  \/ \E answer \in FetchAnswers, tc \in BOOLEAN : FetchDone(1, answer, tc)
  \/ \E geo \in GeoAnswers, tc \in BOOLEAN : BadReply(1, geo, tc)

HubNext ==
  \/ \E ip \in ClientIps : HubConnection(ip)
  \/ \E c \in 1 .. MaxConns, n \in IdSuffixes, data \in SignupFrames : HubSignup(c, n, data)
  \/ \E c \in 1 .. MaxConns, id \in HubIds, ip \in FrameIps, sig \in ReportSignatures :
        HubValidate(c, id, ip, sig)
  \/ \E c \in 1 .. MaxConns : HubMalformed(c)
  \/ \E c \in 1 .. MaxConns : HubClose(c)

\* the hub with the frames of one connection
ReportNext ==
  \/ Len(conns) = 0 /\ \E ip \in ClientIps : HubConnection(ip)
  \/ \E n \in IdSuffixes, data \in SignupFrames : HubSignup(1, n, data)
  \/ \E id \in HubIds, ip \in FrameIps, sig \in ReportSignatures : HubValidate(1, id, ip, sig)
  \/ HubMalformed(1)
  \/ HubClose(1)

(***************************************************************************)
(* Latency probe: values and helpers                                       *)
(***************************************************************************)
\* the defaults of measureLatency; timeout bounds the waits, which the model
\* does not time
defaults ==
  [preferNetworkPing |-> TRUE, measureDns |-> TRUE, useHeadRequest |-> TRUE,
   maxRedirects |-> 5]

\* the options a call is given: none, or every option set
OptionSets ==
  {<<>>} \cup
  [preferNetworkPing : BOOLEAN, measureDns : BOOLEAN, useHeadRequest : BOOLEAN,
   maxRedirects : 0 .. MaxRedirects]

\* { ...defaults, ...options }
Merge(base, options) == options @@ base

\* what the server of one hop of a redirect chain answers to a request:
\*   "redirect"     a 302 with a Location header that names the next hop
\*   "noLocation"   a 302 without a Location header
\*   "badLocation"  a 302 whose Location header new URL() cannot parse
\*   "final"        a response that ends the chain: 200, 404, or 300 (Multiple
\*                  Choices), a 3xx that is not one of the redirect statuses
\*   "error", "timeout"   no response
Hop(scheme, kind, status) == [scheme |-> scheme, kind |-> kind, status |-> status]
AnswerKinds == {"redirect", "noLocation", "badLocation", "final", "error", "timeout"}
\* res.statusCode; 0 stands for no response
AnswerStatuses == {0, 200, 300, 302, 404}
\* how a chain can end
LastAnswers ==
  { [kind |-> "final", status |-> 200], [kind |-> "final", status |-> 404],
    [kind |-> "final", status |-> 300],
    [kind |-> "noLocation", status |-> 302], [kind |-> "badLocation", status |-> 302],
    [kind |-> "error", status |-> 0], [kind |-> "timeout", status |-> 0] }

\* a chain starts at an http URL and may move to https at hop toHttps (0: never)
SchemeAt(k, toHttps) == IF toHttps # 0 /\ k >= toHttps THEN "https" ELSE "http"
\* n redirects, then the hop that ends the chain
Chain(n, toHttps, last) ==
  [k \in 1 .. (n + 1) |->
     IF k <= n THEN Hop(SchemeAt(k, toHttps), "redirect", 302)
               ELSE Hop(SchemeAt(k, toHttps), last.kind, last.status)]

\* the URLs measureLatency is called with: one that new URL() rejects, and the
\* chains of up to MaxRedirects + 1 redirects. A URL of a chain is its hop number.
Sites ==
  {[parses |-> FALSE, hops |-> <<>>]} \cup
  { [parses |-> TRUE, hops |-> Chain(n, toHttps, last)] :
      n \in 0 .. (MaxRedirects + 1),
      toHttps \in {0} \cup (2 .. (MaxRedirects + 2)),
      last \in LastAnswers }

\* const port = protocol === 'https:' ? 443 : 80
PortOf(scheme) == IF scheme = "https" THEN 443 ELSE 80

\* options.port of every HEAD request of a call: the const port that
\* performHeadRequest computes from the URL it is called with
RequestPort == PortOf(url.hops[1].scheme)

\* what a request sent to the port of the other scheme meets: the handshake
\* fails and the request emits 'error'
WrongPortAnswers(scheme) == {Hop(scheme, "error", 0)}

\* the answers a HEAD request for hop k can get: makeRequest takes the protocol
\* and the host from currentUrl, but the port from the URL of the call
HeadAnswers(site, k) ==
  IF PortOf(site.hops[k].scheme) = PortOf(site.hops[1].scheme)
    THEN {site.hops[k]}
    ELSE WrongPortAnswers(site.hops[k].scheme)

\* [301, 302, 303, 307, 308].includes(res.statusCode)
RedirectStatuses == {301, 302, 303, 307, 308}
IsRedirect(answer) == answer.status \in RedirectStatuses

\* what execSync(pingCmd, { timeout: 3000 }) and the regular expressions meet:
\* the command is killed after 3000 ms ("timeout") or exits with an error
\* ("failed"), and execSync throws; or it prints its output, in which the
\* patterns find a time (match) or nothing (NoNum). took is how long the call
\* lasted.
EchoAnswers ==
  { [run |-> "timeout", match |-> NoNum, took |-> 3000],
    [run |-> "failed", match |-> NoNum, took |-> 1],
    [run |-> "output", match |-> NoNum, took |-> 12],
    [run |-> "output", match |-> 0, took |-> 1],
    [run |-> "output", match |-> 12, took |-> 12] }

\* getNetworkLatency: the time the patterns found; null when none matched and,
\* from the catch, when execSync threw
getNetworkLatency(e) ==
  IF e.run # "output" THEN NoNum
  ELSE IF e.match # NoNum THEN e.match
  ELSE NoNum

\* Date.now() - startTime in the callback of dns.lookup
DnsTimes == {3}
\* getDnsResolutionTime: resolve(err ? null : resolveTime)
getDnsResolutionTime(err, resolveTime) == IF err THEN NoNum ELSE resolveTime

\* socket.setTimeout(2000)
TCP_TIMEOUT == 2000
\* Date.now() - startTime when the socket emits an event
TcpTimes == {0, 40, TCP_TIMEOUT}

\* a variant of the handlers that would leave the socket in use
TcpHandlerKeepsSocket(t, ev, elapsed) ==
  [state |-> "settled", destroyed |-> FALSE, calls |-> t.calls + 1,
   event |-> IF t.calls = 0 THEN ev ELSE t.event,
   at |-> IF t.calls = 0 THEN elapsed ELSE t.at,
   value |-> IF t.calls > 0 THEN t.value
             ELSE IF ev = "connect" THEN elapsed ELSE NoNum]

\* the handlers of 'connect', 'timeout' and 'error' of getTcpConnectionTime
\* (getTcpLatency of cli.js has the same): socket.destroy(), then resolve with
\* the time for 'connect' and with null otherwise. calls counts the calls of
\* resolve; the first one settles the promise.
TcpHandler(t, ev, elapsed) ==
  [state |-> "settled", destroyed |-> TRUE, calls |-> t.calls + 1,
   event |-> IF t.calls = 0 THEN ev ELSE t.event,
   at |-> IF t.calls = 0 THEN elapsed ELSE t.at,
   value |-> IF t.calls > 0 THEN t.value
             ELSE IF ev = "connect" THEN elapsed ELSE NoNum]

\* Date.now() - startTime of a HEAD response and of the GET
HeadTimes == {50}
GetTimes == {90}

\* axios.get with maxRedirects and validateStatus: () => true. It follows the
\* chain with the port of every hop. With maxRedirects 0 axios does not follow
\* and the response has no responseUrl.
GetOutcome(site, maxRedirects) ==
  LET n == Len(site.hops) - 1
      last == site.hops[n + 1]
  IN IF maxRedirects = 0
       THEN IF site.hops[1].kind \in {"error", "timeout"}
              THEN [ok |-> FALSE]
              ELSE [ok |-> TRUE, status |-> site.hops[1].status, finalUrl |-> NoNum]
     ELSE IF n > maxRedirects \/ last.kind \in {"badLocation", "error", "timeout"}
       THEN [ok |-> FALSE]
     ELSE [ok |-> TRUE, status |-> last.status, finalUrl |-> n + 1]

\* results.bestLatency
BestLatency(cfg, res) ==
  IF cfg.preferNetworkPing /\ res.networkPing # NoNum /\ res.networkPing # 0
    THEN res.networkPing
    ELSE res.httpLatency

\* results once bestLatency is set
WithBest(cfg, res) ==
  [url |-> res.url, networkPing |-> res.networkPing, httpLatency |-> res.httpLatency,
   dnsTime |-> res.dnsTime, status |-> res.status, finalUrl |-> res.finalUrl,
   bestLatency |-> BestLatency(cfg, res)]

NoEcho == [state |-> "idle"]
NoDns == [state |-> "idle"]

ProbeInit ==
  /\ pc = "idle"
  /\ url = [parses |-> FALSE, hops |-> <<>>]
  /\ config = defaults
  /\ results = <<>>
  /\ currentUrl = 0
  /\ redirectCount = 0
  /\ echo = NoEcho
  /\ dns = NoDns
  /\ fallback = FALSE
  /\ tcp = [state |-> "idle"]
  /\ stall = 0

(***************************************************************************)
(* Latency probe: operations                                               *)
(***************************************************************************)
\* measureLatency(url, options) up to its first await: new URL(url), whose
\* throw is caught at the end and returns the error object; getNetworkLatency,
\* which runs execSync to its end before it returns its promise
MeasureLatency(site, options, e) ==
  /\ pc = "idle"
  /\ tcp.state # "pending"
  /\ url' = site
  /\ config' = Merge(defaults, options)
  /\ currentUrl' = 0
  /\ redirectCount' = 0
  /\ fallback' = FALSE
  /\ IF ~site.parses
       THEN /\ results' = [url |-> 1, error |-> "Invalid URL", networkPing |-> NoNum,
                           httpLatency |-> NoNum, status |-> 0]
            /\ pc' = "returned"
            /\ echo' = NoEcho
            /\ dns' = NoDns
            /\ stall' = 0
       ELSE /\ results' = [url |-> 1, networkPing |-> NoNum, httpLatency |-> NoNum,
                           dnsTime |-> NoNum, status |-> NoNum, finalUrl |-> 1]
            /\ pc' = "echoed"
            /\ echo' = [state |-> "done", run |-> e.run, ping |-> getNetworkLatency(e)]
            /\ dns' = NoDns
            /\ stall' = e.took
  /\ UNCHANGED <<hubVars, sessionVars, keyVars, tcp>>

\* a variant of StartDns that would not await Promise.all: the HTTP probe is
\* issued while the DNS lookup is pending
StartDnsNoAwait ==
  /\ pc = "echoed"
  /\ pc' = IF config.useHeadRequest THEN "head" ELSE "get"
  /\ currentUrl' = IF config.useHeadRequest THEN 1 ELSE currentUrl
  /\ results' = [results EXCEPT !.networkPing = echo.ping]
  /\ dns' = IF config.measureDns THEN [state |-> "pending"] ELSE NoDns
  /\ stall' = 0
  /\ UNCHANGED <<hubVars, sessionVars, keyVars, tcp, url, config, redirectCount, echo, fallback>>

\* the second element of the array given to Promise.all, evaluated once
\* getNetworkLatency has returned: getDnsResolutionTime, which starts
\* dns.lookup, or Promise.resolve(null); then the await
StartDns ==
  /\ pc = "echoed"
  /\ pc' = "awaitAll"
  /\ dns' = IF config.measureDns THEN [state |-> "pending"] ELSE NoDns
  /\ stall' = 0
  /\ UNCHANGED <<hubVars, sessionVars, keyVars, tcp, url, config, results, currentUrl, redirectCount,
                 echo, fallback>>

\* after the await of Promise.all: store the two readings, then issue the first
\* HEAD request (performHeadRequest, makeRequest(url)) or the GET
AfterProbes(dnsTime) ==
  /\ results' = [results EXCEPT !.networkPing = echo.ping, !.dnsTime = dnsTime]
  /\ IF config.useHeadRequest
       THEN /\ pc' = "head"
            /\ currentUrl' = 1
            /\ redirectCount' = 0
       ELSE /\ pc' = "get"
            /\ UNCHANGED <<currentUrl, redirectCount>>
  /\ stall' = 0
  /\ UNCHANGED <<url, config, echo, fallback>>

\* the callback of dns.lookup runs and Promise.all resolves
DnsLookupDone(err, resolveTime) ==
  /\ pc = "awaitAll"
  /\ dns.state = "pending"
  /\ dns' = [state |-> "done", err |-> err, time |-> getDnsResolutionTime(err, resolveTime)]
  /\ AfterProbes(dns'.time)
  /\ UNCHANGED <<hubVars, sessionVars, keyVars, tcp>>

\* Promise.all resolves without a DNS lookup (measureDns is false)
ProbesResolved ==
  /\ pc = "awaitAll"
  /\ dns.state = "idle"
  /\ AfterProbes(NoNum)
  /\ UNCHANGED <<hubVars, sessionVars, keyVars, tcp, dns>>

\* the promise of performHeadRequest rejects: catch (headError) issues the GET
HeadRejected ==
  /\ pc' = "get"
  /\ fallback' = TRUE
  /\ UNCHANGED <<results, currentUrl, redirectCount>>

\* return results, once bestLatency is chosen
Return(res) ==
  /\ results' = WithBest(config, res)
  /\ pc' = "returned"

\* the HEAD request for currentUrl gets its answer: the response callback, or
\* the error or timeout handler
HeadResponse(answer, time) ==
  /\ pc = "head"
  /\ answer \in HeadAnswers(url, currentUrl)
  /\ IF answer.kind \in {"error", "timeout"}
       THEN HeadRejected
     ELSE IF IsRedirect(answer)
       THEN IF redirectCount >= config.maxRedirects \/ answer.kind = "noLocation"
              THEN HeadRejected
            ELSE IF answer.kind = "badLocation"
              \* new URL(location, currentUrl) throws inside the response
              \* callback: nothing catches it and the promise never settles
              THEN /\ pc' = "uncaught"
                   /\ UNCHANGED <<results, currentUrl, redirectCount, fallback>>
            ELSE /\ currentUrl' = currentUrl + 1
                 /\ redirectCount' = redirectCount + 1
                 /\ UNCHANGED <<pc, results, fallback>>
     ELSE /\ Return([results EXCEPT !.httpLatency = time, !.status = answer.status,
                                    !.finalUrl = currentUrl])
          /\ UNCHANGED <<currentUrl, redirectCount, fallback>>
  /\ stall' = 0
  /\ UNCHANGED <<hubVars, sessionVars, keyVars, tcp, url, config, echo, dns>>

\* axios.get settles; fails is a failure of the transport or a timeout
GetDone(fails, time) ==
  /\ pc = "get"
  /\ LET got == IF fails THEN [ok |-> FALSE] ELSE GetOutcome(url, config.maxRedirects) IN
       IF got.ok
         THEN Return([results EXCEPT !.httpLatency = time, !.status = got.status,
                                     !.finalUrl = got.finalUrl])
         ELSE Return([results EXCEPT !.status = 0])
  /\ stall' = 0
  /\ UNCHANGED <<hubVars, sessionVars, keyVars, tcp, url, config, currentUrl, redirectCount, echo, dns,
                 fallback>>

\* getTcpConnectionTime(hostname, port): a new socket with its timeout and its
\* handlers, then socket.connect; one call in a behaviour, made before the
\* call of measureLatency
GetTcpConnectionTime ==
  /\ pc = "idle"
  /\ tcp.state = "idle"
  /\ tcp' = [state |-> "pending", destroyed |-> FALSE, calls |-> 0, event |-> "none",
             at |-> NoNum, value |-> NoNum]
  /\ stall' = 0
  /\ UNCHANGED <<hubVars, sessionVars, keyVars, pc, url, config, results, currentUrl,
                 redirectCount, echo, dns, fallback>>

\* the socket emits ev: 'connect' or 'error' before the timeout has passed,
\* 'timeout' when it has; a destroyed socket emits none of them
TcpEvent(ev, elapsed) ==
  /\ tcp.state # "idle"
  /\ ~tcp.destroyed
  /\ (ev = "timeout") = (elapsed = TCP_TIMEOUT)
  /\ tcp' = TcpHandler(tcp, ev, elapsed)
  /\ stall' = 0
  /\ UNCHANGED <<hubVars, sessionVars, keyVars, pc, url, config, results, currentUrl,
                 redirectCount, echo, dns, fallback>>

ProbeNext ==
  \/ pc = "idle" /\ \E site \in Sites, options \in OptionSets, e \in EchoAnswers :
                       MeasureLatency(site, options, e)
  \/ StartDns
  \/ \E err \in BOOLEAN, resolveTime \in DnsTimes : DnsLookupDone(err, resolveTime)
  \/ ProbesResolved
  \/ \E scheme \in {"http", "https"}, kind \in AnswerKinds, status \in AnswerStatuses,
        time \in HeadTimes :
        HeadResponse(Hop(scheme, kind, status), time)
  \/ \E fails \in BOOLEAN, time \in GetTimes : GetDone(fails, time)
  \/ GetTcpConnectionTime
  \/ \E ev \in {"connect", "timeout", "error"}, elapsed \in TcpTimes : TcpEvent(ev, elapsed)

(***************************************************************************)
(* Key files: values and helpers                                           *)
(***************************************************************************)
\* the byte values the keys of the model are made of
Bytes == {77, 255}
ByteSeqs(n) == [1 .. n -> Bytes]

\* a character of a file: a base64 digit 0 .. 63, the pad "=", or white space
Pad == 64
Space == 65

\* naclUtil.encodeBase64: three bytes give four digits; a last group of two
\* bytes gives three digits and a pad, one of one byte two digits and two pads
RECURSIVE encodeBase64(_)
encodeBase64(b) ==
  IF Len(b) = 0 THEN <<>>
  ELSE IF Len(b) = 1
    THEN <<b[1] \div 4, (b[1] % 4) * 16, Pad, Pad>>
  ELSE IF Len(b) = 2
    THEN <<b[1] \div 4, (b[1] % 4) * 16 + b[2] \div 16, (b[2] % 16) * 4, Pad>>
  ELSE <<b[1] \div 4, (b[1] % 4) * 16 + b[2] \div 16, (b[2] % 16) * 4 + b[3] \div 64,
         b[3] % 64>> \o encodeBase64(SubSeq(b, 4, Len(b)))

\* validateBase64 of naclUtil.decodeBase64: groups of four digits, the last one
\* may end in one or two pads
validBase64(t) ==
  /\ Len(t) % 4 = 0
  /\ \A i \in 1 .. Len(t) :
        \/ t[i] < Pad
        \/ t[i] = Pad /\ i = Len(t)
        \/ t[i] = Pad /\ i = Len(t) - 1 /\ t[Len(t)] = Pad

\* naclUtil.decodeBase64 of a valid text
RECURSIVE decodeBase64(_)
decodeBase64(t) ==
  IF Len(t) = 0 THEN <<>>
  ELSE LET b1 == t[1] * 4 + t[2] \div 16
           b2 == (t[2] % 16) * 16 + t[3] \div 4
           b3 == (t[3] % 4) * 64 + t[4]
       IN IF t[3] = Pad THEN <<b1>>
          ELSE IF t[4] = Pad THEN <<b1, b2>>
          ELSE <<b1, b2, b3>> \o decodeBase64(SubSeq(t, 5, Len(t)))

\* String.prototype.trim
RECURSIVE trim(_)
trim(t) ==
  IF Len(t) = 0 THEN t
  ELSE IF t[1] = Space THEN trim(SubSeq(t, 2, Len(t)))
  ELSE IF t[Len(t)] = Space THEN trim(SubSeq(t, 1, Len(t) - 1))
  ELSE t

\* nacl.sign.keyPair(): the secret key is the seed followed by the public key
keyPair(seed, pk) == [publicKey |-> pk, secretKey |-> seed \o pk]

\* a variant of fromSecretKey that would take the first bytes as the public key
fromSecretKeyFirstBytes(sk) ==
  [publicKey |-> SubSeq(sk, 1, PublicKeyLength), secretKey |-> sk]

\* nacl.sign.keyPair.fromSecretKey: the public key is the last bytes of the
\* secret key (a secret key of another length is refused, see loadKeypair)
fromSecretKey(sk) ==
  [publicKey |-> SubSeq(sk, SeedLength + 1, SeedLength + PublicKeyLength), secretKey |-> sk]

NoFile == [exists |-> FALSE, text |-> <<>>]
NotLoaded == [done |-> FALSE]

\* loadPrivateKeyFromFile(filePath) on the file f: the keypair, or process.exit(1)
\* for an absent file, a text that is not base64, or a key of the wrong length
loadKeypair(f) ==
  IF ~f.exists \/ ~validBase64(trim(f.text))
    THEN [done |-> TRUE, ok |-> FALSE]
  ELSE IF Len(decodeBase64(trim(f.text))) # SeedLength + PublicKeyLength
    THEN [done |-> TRUE, ok |-> FALSE]
  ELSE [done |-> TRUE, ok |-> TRUE, keypair |-> fromSecretKey(decodeBase64(trim(f.text)))]

KeyInit ==
  /\ files = [privateKey |-> NoFile, publicKey |-> NoFile]
  /\ command = "none"
  /\ loaded = NotLoaded

(***************************************************************************)
(* Key files: operations                                                   *)
(***************************************************************************)
\* the generate-keys action: make a keypair, write privateKey.txt, then
\* publicKey.txt; a throwing mkdirSync or writeFileSync leads to process.exit(1).
\* failsAt is the call that throws: 0 none, 1 ensureDirectoryExists or the first
\* write, 2 the second write.
GenerateKeys(seed, pk, failsAt) ==
  /\ LET kp == keyPair(seed, pk)
         privateKeyBase64 == encodeBase64(kp.secretKey)
         publicKeyBase64 == encodeBase64(kp.publicKey)
     IN files' = [privateKey |-> IF failsAt = 1 THEN files.privateKey
                                 ELSE [exists |-> TRUE, text |-> privateKeyBase64],
                  publicKey |-> IF failsAt # 0 THEN files.publicKey
                                ELSE [exists |-> TRUE, text |-> publicKeyBase64]]
  /\ command' = IF failsAt = 0 THEN "succeeded" ELSE "exit1"
  /\ loaded' = NotLoaded
  /\ UNCHANGED <<hubVars, sessionVars, probeVars>>

\* loadPrivateKeyFromFile on privateKey.txt of the output directory
LoadPrivateKey ==
  /\ ~loaded.done
  /\ loaded' = loadKeypair(files.privateKey)
  /\ UNCHANGED <<hubVars, sessionVars, probeVars, files, command>>

KeyNext ==
  \/ \E seed \in ByteSeqs(SeedLength), pk \in ByteSeqs(PublicKeyLength), failsAt \in 0 .. 2 :
        GenerateKeys(seed, pk, failsAt)
  \/ LoadPrivateKey

(***************************************************************************)
(* Specifications                                                          *)
(***************************************************************************)
\* both programs as they are after start-up
Init == HubInit /\ SessionInit /\ ProbeInit /\ KeyInit

HubSpec == Init /\ [][HubNext]_vars

SessionSpec == Init /\ [][SessionNext]_vars

FrameSpec == Init /\ [][FrameNext]_vars

PairSpec == Init /\ [][PairNext]_vars

ReportSpec == Init /\ [][ReportNext]_vars

KeySpec == Init /\ [][KeyNext]_vars

ProbeSpec == Init /\ [][ProbeNext]_vars

(***************************************************************************)
(* Hub registry: properties                                                *)
(***************************************************************************)
\* the record at position i of validators was stored by a signup on a
\* connection that is still open
Live(i) == conns[validators[i].conn].open

\* C1: handling a frame never takes a live record away from the connection that
\* registered it: after the step the same id is still registered to the same
\* connection, so no signup overwrites the live record of another connection.
C1_SignupKeepsLiveRecords ==
  [][\A i \in 1 .. Len(validators) :
       (hubFrames' # hubFrames /\ Live(i)) =>
         \E j \in 1 .. Len(validators') :
           /\ validators'[j].id = validators[i].id
           /\ validators'[j].conn = validators[i].conn]_vars

\* C2: when a connection closes, every record that another connection
\* registered is still in the registry, unchanged.
C2_CloseKeepsOtherRecords ==
  [][\A c \in 1 .. Len(conns) :
       (conns[c].open /\ ~conns'[c].open) =>
         \A i \in 1 .. Len(validators) :
           validators[i].conn # c =>
             \E j \in 1 .. Len(validators') : validators'[j] = validators[i]]_vars

\* C3: every record of the registry belongs to a connection that is still open:
\* once the registering connection has closed, its record is gone.
C3_NoRecordOfClosedConnection ==
  \A i \in 1 .. Len(validators) : Live(i)

(***************************************************************************)
(* Validator session: properties                                           *)
(***************************************************************************)
\* the sockets that are connecting or open
LiveSockets == {s \in 1 .. Len(sockets) : sockets[s].readyState \in {"CONNECTING", "OPEN"}}

\* C4: at most one hub connection is connecting or open at any time, and every
\* connection but the newest is closed: a reconnection creates the next
\* connection only after the previous one has closed.
C4_OneLiveConnection ==
  /\ Cardinality(LiveSockets) <= 1
  /\ \A s \in 1 .. (Len(sockets) - 1) : sockets[s].readyState = "CLOSED"

\* a reconnection has happened and its connection is open
C4_Reconnected ==
  /\ Len(sockets) >= 2
  /\ sockets[Len(sockets)].readyState = "OPEN"

\* socket s closes in this step
Closes(s) == sockets[s].readyState # "CLOSED" /\ sockets'[s].readyState = "CLOSED"

\* C5: a connection that closes while the session is to keep running schedules
\* exactly one reconnect, with a delay of 5000 ms whatever the number of earlier
\* attempts; nothing else schedules one; and a reconnect attempt starts only
\* from a scheduled reconnect whose 5000 ms have passed, which it uses up.
C5_OneReconnectAfterDelay ==
  [][/\ \A s \in 1 .. Len(sockets) :
          Closes(s) =>
            timers' = IF isValidating
                        THEN Append(timers, [delay |-> 5000, age |-> 0])
                        ELSE timers
     /\ (\A s \in 1 .. Len(sockets) : ~Closes(s)) => Len(timers') <= Len(timers)
     /\ (started /\ connects' > connects) =>
          /\ connects' = connects + 1
          /\ \E i \in 1 .. Len(timers) :
               timers[i].age >= 5000 /\ timers' = Remove(timers, i)]_vars

\* a reconnect attempt has failed and the next attempt is under way
C5_SecondAttempt ==
  /\ isValidating
  /\ Len(sockets) = 2
  /\ sockets[2].readyState = "CLOSED"
  /\ connects = 1

\* C6: once stopValidator has run, no new socket is created.
C6_NoSocketAfterStop ==
  [][~isValidating => Len(sockets') = Len(sockets)]_vars

\* C7: a run of the message handler for a validate frame that arrived after the
\* signup ack has sent exactly one result frame when it returns.
C7_OneResultPerRequest ==
  (finished.done /\ finished.afterAck) => finished.replies = 1

\* C8: every result frame with status Bad carries latency 0, and every result
\* frame with status Good carries the latency that was measured.
C8_BadLatencyZero ==
  lastSend.kind = "validate" =>
    /\ lastSend.frame.status = "Bad" => lastSend.frame.latency = 0
    /\ lastSend.frame.status = "Good" => lastSend.frame.latency = lastSend.time

\* a Bad frame has gone out for a check whose measured latency is not 0
C8_BadFrameSent ==
  /\ lastSend.kind = "validate"
  /\ lastSend.out = "sent"
  /\ lastSend.frame.status = "Bad"
  /\ lastSend.time > 0

\* C9: a result frame has status Good exactly when the final response status is
\* in 200..399.
C9_GoodIffSuccessStatus ==
  lastSend.kind = "validate" =>
    (lastSend.frame.status = "Good" <=> lastSend.responseStatus \in 200 .. 399)

\* C10: a run of the message handler for a validate frame has added exactly 100
\* to pendingPayouts when it returns.
C10_CreditedOnce ==
  finished.done => finished.credit = 100

\* C11: pendingPayouts never decreases, whatever acks, requests and
\* reconnections happen.
C11_RewardCounterMonotonic ==
  [][pendingPayouts' >= pendingPayouts]_vars

\* C12: no call of measureLatency ends in an exception, and every call that
\* has returned gives a measurement whose status is set.
C12_NeverRaises ==
  /\ pc # "uncaught"
  /\ pc = "returned" => results.status # NoNum

\* C13: after a chain of n <= maxRedirects redirects that ends in a response,
\* the HEAD request has followed every hop and the result has the status and
\* the URL of the last hop, without the GET; after a chain of more redirects
\* the GET is issued.
C13_FollowsBoundedChain ==
  (pc = "returned" /\ url.parses /\ config.useHeadRequest) =>
    LET n == Len(url.hops) - 1
        last == url.hops[n + 1]
    IN /\ (n <= config.maxRedirects /\ last.kind = "final") =>
            /\ ~fallback
            /\ results.status = last.status
            /\ results.finalUrl = n + 1
       /\ n > config.maxRedirects => fallback

\* C14: bestLatency is networkPing whenever preferNetworkPing is set and
\* networkPing is not null, 0 included, and httpLatency otherwise.
C14_BestLatencyChoice ==
  (pc = "returned" /\ url.parses) =>
    results.bestLatency =
      IF config.preferNetworkPing /\ results.networkPing # NoNum
        THEN results.networkPing
        ELSE results.httpLatency

\* C15: the GET after a failed HEAD request gives the status only: no latency
\* field of the result is the time the GET took.
C15_FallbackTimingDiscarded ==
  (pc = "returned" /\ fallback) =>
    /\ results.httpLatency \notin GetTimes
    /\ results.bestLatency \notin GetTimes

\* C16: the DNS lookup starts before the echo probe has completed, and no
\* step of the call blocks the event loop.
C16_EchoAndDnsConcurrent ==
  [][/\ stall' = 0
     /\ (dns.state = "idle" /\ dns'.state = "pending") => echo.state # "done"]_vars

\* signature sig was made with the secret key that belongs to publicKey
Verifies(sig, publicKey) ==
  \/ publicKey = "pkA" /\ sig.key = "skA"
  \/ publicKey = "pkX" /\ sig.key = "skX"

\* C18: a validate frame whose signedMessage does not verify against the
\* publicKey registered for its validatorId leaves every record as it was.
C18_UnverifiedReportIgnored ==
  [][(/\ handled'.type = "validate"
      /\ MapHas(validators, handled'.validatorId)
      /\ ~Verifies(handled'.signedMessage,
                   MapGet(validators, handled'.validatorId).publicKey))
       => validators' = validators]_vars

\* C19: every result frame that goes out carries a validatorId that is not
\* null and that an ack received on the socket it goes out on has assigned.
C19_ResultCarriesCurrentId ==
  (lastSend.kind = "validate" /\ lastSend.out = "sent") =>
    /\ lastSend.frame.validatorId # Null
    /\ \E i \in 1 .. Len(sockets[lastSend.sock].acked) :
          sockets[lastSend.sock].acked[i] = lastSend.frame.validatorId

\* C20: a socket carries at most one Registration frame and an open socket
\* exactly one; a Registration frame that goes out is the first frame of the
\* socket that opened, and a result frame goes out after it; the Registration
\* frame signs `Signed message for {callbackId}, {publicKey}` with its own
\* callbackId and publicKey, a result frame signs `Replying to {callbackId}`
\* with its own callbackId.
C20_RegistrationFirstAndSigned ==
  /\ \A s \in 1 .. Len(sockets) :
        /\ sockets[s].signups <= 1
        /\ sockets[s].readyState = "OPEN" => sockets[s].signups = 1
  /\ (lastSend.kind = "signup" /\ lastSend.out = "sent") =>
        /\ lastSend.sock = lastSend.openedOn
        /\ lastSend.frame.signedMessage =
             signMessage(<<"Signed message for ", lastSend.frame.callbackId, ", ",
                           lastSend.frame.publicKey>>, Keypair)
  /\ (lastSend.kind = "validate" /\ lastSend.out = "sent") =>
        /\ sockets[lastSend.sock].signups = 1
        /\ lastSend.frame.signedMessage =
             signMessage(<<"Replying to ", lastSend.frame.callbackId>>, Keypair)

\* a result frame has gone out on a socket made by a reconnect
C20_ResultAfterReconnect ==
  /\ lastSend.kind = "validate"
  /\ lastSend.out = "sent"
  /\ lastSend.sock > 1

\* C17: a result frame carries the callbackId of a request that was received
\* and the signature made over that callbackId, and the run that returns with
\* it is the run of that request, whatever other request is pending.
C17_ResultOfOwnRequest ==
  lastSend.kind = "validate" =>
    /\ lastSend.frame.callbackId \in received
    /\ lastSend.frame.signedMessage =
         signMessage(<<"Replying to ", lastSend.frame.callbackId>>, Keypair)
    /\ finished.done => finished.callbackId = lastSend.frame.callbackId
    /\ \A r \in 1 .. Len(requests) :
          requests[r].pc = "measure" =>
            requests[r].callbackId # lastSend.frame.callbackId

\* the request that arrived second has returned with its frame sent while the
\* one that arrived first still awaits its probe
C17_SecondCompletesFirst ==
  /\ finished.done
  /\ finished.seq = 2
  /\ finished.replies = 1
  /\ lastSend.kind = "validate"
  /\ lastSend.out = "sent"
  /\ \E r \in 1 .. Len(requests) : requests[r].seq = 1 /\ requests[r].pc = "measure"

\* C21: a step in which the message handler of a connection catches an error
\* leaves the connection open and sends nothing on it, on the hub (no ack goes
\* out, no record is removed) and in the session (no send call is made, the
\* socket keeps its state).
C21_CaughtErrorKeepsConnection ==
  [][/\ \A c \in 1 .. Len(conns) :
          (conns'[c].caught /\ (~conns[c].caught \/ handled'.type = "malformed")) =>
             /\ conns'[c].open
             /\ conns'[c].acks = conns[c].acks
             /\ MapKeys(validators) \subseteq MapKeys(validators')
     /\ \A s \in 1 .. Len(sockets) :
          (sockets'[s].caught /\ ~sockets[s].caught) =>
             /\ sockets'[s].readyState = sockets[s].readyState
             /\ sockets'[s].readyState = "OPEN"
             /\ lastSend'.kind = "none"
             /\ wsConnection' = wsConnection]_vars

\* after a caught error on the connection, the hub has acknowledged a signup on
\* it, and the session has answered a validate frame that came on its socket
C21_ProcessedAfterError ==
  /\ handled.type = "signup"
  /\ handled.acked
  /\ conns[handled.conn].caught
  /\ conns[handled.conn].open
  /\ finished.done
  /\ finished.afterCaught
  /\ finished.replies = 1
  /\ lastSend.kind = "validate"
  /\ sockets[lastSend.sock].caught

\* C22: a validator started with a valid key never exits, and while it is to
\* keep running it always has a connection that has not closed, a reconnect
\* timer or a connectWebsocket call pending; a socket that has emitted an
\* error is never left open or connecting.
C22_ConnectionErrorNotFatal ==
  (started /\ process.key = "valid") =>
    /\ process.exitCode = NoNum
    /\ isValidating =>
         \/ connects > 0
         \/ timers # <<>>
         \/ \E s \in 1 .. Len(sockets) : sockets[s].readyState # "CLOSED"
    /\ \A s \in 1 .. Len(sockets) :
         sockets[s].aborted => sockets[s].readyState \in {"CLOSING", "CLOSED"}

\* the hub was unreachable twice: two sockets have failed and closed, and the
\* next reconnect is scheduled
C22_ReconnectingAfterFailures ==
  /\ Len(sockets) = 2
  /\ \A s \in 1 .. 2 : sockets[s].readyState = "CLOSED" /\ sockets[s].signups = 0
  /\ timers # <<>>
  /\ isValidating
  /\ process.exitCode = NoNum

\* C23: a start with a missing or undecodable key file ends the process with a
\* non-zero status; no connectWebsocket call is made, no socket is created and
\* no frame is sent.
C23_BadKeyIsFatal ==
  (started /\ process.key # "valid") =>
    /\ process.exitCode # NoNum
    /\ process.exitCode # 0
    /\ connects = 0
    /\ sockets = <<>>
    /\ wsConnection = 0
    /\ lastSend = NoCall

\* the start command was given an undecodable key file and the process is gone
C23_ExitedOnBadKey ==
  /\ started
  /\ process.key = "undecodable"
  /\ process.exitCode = 1

\* C24: after a generate-keys run that reported success, privateKey.txt and
\* publicKey.txt both exist, and loadPrivateKeyFromFile on the written
\* privateKey.txt gives a keypair whose public key, in base64, is the content
\* of publicKey.txt.
C24_WrittenKeysRoundTrip ==
  command = "succeeded" =>
    /\ files.privateKey.exists
    /\ files.publicKey.exists
    /\ loaded.done =>
         /\ loaded.ok
         /\ encodeBase64(loaded.keypair.publicKey) = files.publicKey.text

\* a successful run whose private key, of a seed unlike its public key, was
\* loaded back
C24_LoadedWrittenKey ==
  /\ command = "succeeded"
  /\ loaded.done
  /\ loaded.ok
  /\ SubSeq(loaded.keypair.secretKey, 1, SeedLength) # loaded.keypair.publicKey

\* C25: a result frame that goes out carries the callbackId of a request that
\* was received and whose run, still pending when the frame is sent, has sent
\* no result frame yet; no frame goes out for a callbackId that was not asked
\* about.
C25_AnswersPendingRequest ==
  [][(lastSend'.kind = "validate" /\ lastSend'.out = "sent") =>
       /\ lastSend'.frame.callbackId \in received
       /\ \E r \in 1 .. Len(requests) :
             /\ requests[r].callbackId = lastSend'.frame.callbackId
             /\ requests[r].replies = 0
             /\ \A q \in 1 .. Len(requests') :
                   requests'[q].callbackId # lastSend'.frame.callbackId]_vars

\* both requests have been answered, the one that arrived first last
C25_BothAnswered ==
  /\ received = PairIds
  /\ requests = <<>>
  /\ finished.done
  /\ finished.seq = 1
  /\ finished.replies = 1
  /\ lastSend.kind = "validate"
  /\ lastSend.out = "sent"

\* C26: a validate frame that names a registered validatorId changes nothing of
\* the registry but lastActive and ip of the record of that id (publicKey,
\* location, connectionTime stay, and so does every other record); a validate
\* frame that names an id that is not registered leaves the registry as it was.
C26_ReportTouchesLastActiveAndIp ==
  [][handled'.type = "validate" =>
       /\ Len(validators') = Len(validators)
       /\ \A i \in 1 .. Len(validators) :
             IF validators[i].id = handled'.validatorId
               THEN validators'[i] = [validators[i] EXCEPT !.lastActive = validators'[i].lastActive,
                                                           !.ip = validators'[i].ip]
               ELSE validators'[i] = validators[i]
       /\ ~MapHas(validators, handled'.validatorId) => validators' = validators]_vars

\* a report has moved lastActive and ip of one of two records
C26_ReportRecorded ==
  /\ handled.type = "validate"
  /\ Len(validators) = 2
  /\ MapHas(validators, handled.validatorId)
  /\ MapGet(validators, handled.validatorId).lastActive
       > MapGet(validators, handled.validatorId).connectionTime
  /\ MapGet(validators, handled.validatorId).ip = "203.0.113.7"
  /\ MapGet(validators, handled.validatorId).ip
       # MapGet(validators, handled.validatorId).clientIp

\* C27: a call that returns what the HEAD path gave, without the GET, does not
\* return a 3xx status: a 3xx response was either followed or has made the
\* HEAD path fail.
C27_HeadNeverEndsOn3xx ==
  (pc = "returned" /\ url.parses /\ config.useHeadRequest /\ ~fallback) =>
    results.status \notin 300 .. 399

\* C28: while the HEAD request or the GET of a call is in flight, the echo
\* probe of the call has completed and, where measureDns asks for it, so has the
\* DNS timing, with a reading or with null; the step that issues the request
\* is the one that ends the wait for the two.
C28_HttpAfterEchoAndDns ==
  [][/\ pc' \in {"head", "get"} =>
          /\ echo'.state = "done"
          /\ dns'.state # "pending"
          /\ config'.measureDns => dns'.state = "done"
          /\ results'.networkPing = echo'.ping
     /\ (pc \notin {"head", "get"} /\ pc' \in {"head", "get"}) => pc = "awaitAll"]_vars

\* the GET has been issued, with no HEAD request, after an echo probe and a DNS
\* lookup that both failed
C28_GetAfterFailedReadings ==
  /\ pc = "get"
  /\ ~config.useHeadRequest
  /\ ~fallback
  /\ echo.state = "done"
  /\ echo.ping = NoNum
  /\ dns.state = "done"
  /\ dns.time = NoNum

\* the runs of the validate branch that await the geo lookup of the Bad branch
AwaitingGeo(reqs) == {r \in 1 .. Len(reqs) : reqs[r].pc = "geoBad"}

\* C29: a run of connectWebsocket creates the socket and leaves the process
\* running whatever the geo lookup gave, with ipAddress and location as they
\* were after a failed lookup; the Registration frame carries ipAddress and
\* location as they are; a run of the Bad branch makes its send call whatever
\* its geo lookup gave, with the location as it was after a failed lookup.
C29_GeoFailureNotFatal ==
  [][/\ connects' < connects =>
          /\ Len(sockets') = Len(sockets) + 1
          /\ wsConnection' = Len(sockets')
          /\ process' = process
          /\ \/ location' = location /\ ipAddress' = ipAddress
             \/ \E g \in GeoAnswers :
                   g.ok /\ location' = StartLocation(g) /\ ipAddress' = g.ip
     /\ lastSend'.kind = "signup" =>
          /\ lastSend'.frame.ip = ipAddress
          /\ lastSend'.frame.location = location
     /\ Cardinality(AwaitingGeo(requests')) < Cardinality(AwaitingGeo(requests)) =>
          /\ lastSend'.kind = "validate"
          /\ lastSend'.frame.status = "Bad"
          /\ \/ lastSend'.frame.location = location
             \/ \E g \in GeoAnswers : g.ok /\ lastSend'.frame.location = FreshLocation(g)]_vars

\* every geo lookup of the run has failed: the socket has carried its
\* Registration frame and a Bad frame has gone out, both with "Unknown"
C29_SentWithUnknownLocation ==
  /\ lastSend.kind = "validate"
  /\ lastSend.out = "sent"
  /\ lastSend.frame.status = "Bad"
  /\ lastSend.frame.location = "Unknown"
  /\ lastSend.frame.ipAddress = "Unknown"
  /\ sockets[lastSend.sock].signups = 1

C31_StatusCheckBounded ==
  \A r \in 1 .. Len(requests) : requests[r].redirects <= STATUS_MAX_REDIRECTS

\* C32: a result frame goes out on the socket on which its request arrived.
C32_ResultOnRequestSocket ==
  (lastSend.kind = "validate" /\ lastSend.out = "sent") =>
    lastSend.sock = lastSend.receivedOn

\* C33: a step in which the message handler of a socket catches its first error
\* leaves validatorId and pendingPayouts as they were.
C33_FailedFrameKeepsState ==
  [][(/\ Len(sockets') = Len(sockets)
      /\ \E s \in 1 .. Len(sockets) : sockets'[s].caught /\ ~sockets[s].caught)
       => /\ validatorId' = validatorId
          /\ pendingPayouts' = pendingPayouts]_vars

\* C34: every record of the registry has its validatorId among the acks sent
\* on the connection whose signup stored it.
C34_RecordOnlyWithAck ==
  \A i \in 1 .. Len(validators) :
     validators[i].id \in conns[validators[i].conn].acks

\* C35: no two records of the registry belong to one open connection, and the
\* records of open connections are no more than the open connections.
C35_OneLiveRecordPerConnection ==
  /\ \A i, j \in 1 .. Len(validators) :
        (Live(i) /\ validators[i].conn = validators[j].conn) => i = j
  /\ Cardinality({i \in 1 .. Len(validators) : Live(i)})
       <= Cardinality({c \in 1 .. Len(conns) : conns[c].open})

\* C36: the HEAD request in flight was sent to the port of the URL of its hop.
C36_HopSentToItsPort ==
  pc = "head" => RequestPort = PortOf(url.hops[currentUrl].scheme)

\* C37: a validate frame that names a record another connection has registered
\* leaves the registry as it was.
C37_ReportFromRegisteringConnection ==
  [][(/\ handled'.type = "validate"
      /\ MapHas(validators, handled'.validatorId)
      /\ MapGet(validators, handled'.validatorId).conn # handled'.conn)
       => validators' = validators]_vars

\* C38: an ack with a validatorId sets pendingPayouts to the pendingPayouts it
\* carries, and leaves pendingPayouts as it was if it carries none.
C38_AckSeedsRewardCounter ==
  [][("ackPayouts" \in DOMAIN lastSend' /\ validatorId' # Null) =>
       IF lastSend'.ackPayouts # NoNum
         THEN pendingPayouts' = lastSend'.ackPayouts
         ELSE pendingPayouts' = pendingPayouts]_vars

\* after a reconnect, an ack that carries only the validatorId has left the
\* credit of the first connection in the counter
C38_CreditKeptAcrossReconnect ==
  /\ "ackPayouts" \in DOMAIN lastSend
  /\ lastSend.ackPayouts = NoNum
  /\ validatorId # Null
  /\ pendingPayouts >= COST_PER_VALIDATION
  /\ \E s \in 2 .. Len(sockets) : sockets[s].acked # <<>>

====
